---- MODULE Spec2Model ----
(***************************************************************************)
(* Model of the research crew orchestration core:                          *)
(*   src/src/crew.py                   ResearchCrew                        *)
(*   src/src/utils/progress_tracker.py ProgressTracker (the ledger)        *)
(*   src/src/utils/file_manager.py     FileManager (the artifact store)    *)
(*                                                                         *)
(* Python strings are sequences of tokens, so that "x in s" and string     *)
(* concatenation are computed; None is the string "None".                  *)
(***************************************************************************)
EXTENDS Integers, Sequences, FiniteSets, TLC

VARIABLES
    \* ---- ResearchCrew ----
    llm,            \* self._llm: a handle or None
    temp_llm,       \* the local temp_llm of a running _cleanup_llm
    llm_cleaned,    \* handles _cleanup_llm has released (their cleanup() invoked)
    pc,             \* position inside process_with_revisions
    current_topic,  \* self._current_topic
    max_revisions,  \* the max_revisions argument of the running call
    crew,           \* the Crew built by get_crew (the llm its agents hold)
    result,         \* what crew.kickoff() returned
    exc,            \* the exception raised inside the try block, if any
    ret,            \* what the call hands to its caller
    kickoffs,       \* kickoff() invocations of the running call
    calls,          \* process_with_revisions calls started so far
    callbacks,      \* invocations of self._progress_callback, in order
    \* ---- ResearchCrew: cleanup(), signals, _create_llm ----
    stack,          \* the frames of the main thread, innermost last
    exiting,        \* a SystemExit raised by sys.exit(0) is propagating
    exited,         \* the process has exited
    handler,        \* the instance whose cleanup_handler is installed
    second,         \* the second ResearchCrew instance, once constructed
    cleanups,       \* instance -> cleanup() calls made on it
    attempted,      \* the steps the latest cleanup() attempted, in order
    retry_count,    \* retry_count of the running _create_llm
    tries,          \* the outcomes of its LLM(...) constructor invocations
    last_error,     \* last_error of the running _create_llm
    created,        \* what the latest _create_llm gave its caller
    made,           \* the handles constructed so far
    faulty,         \* the cleanup steps replaced by doubles that raise
    handled,        \* the instances whose cleanup() a signal handler has called
    \* ---- FileManager (root "temp") ----
    store,          \* the artifact files under research/ writing/ editing/
    store_dirs,     \* whether the three directories exist
    now,            \* wall clock second of the latest save
    writes,         \* file writes so far (orders modification times)
    \* ---- ProgressTracker ----
    mem,            \* tracker -> self._current_progress
    fs,             \* ledger path -> file content (progress/ directory)
    tpc,            \* tracker -> position inside update_progress/save_progress
    issued,         \* Step Events appended by update_progress calls so far
    saving,         \* the save_progress in flight: file before it, record written
    recovered,      \* what the last recover_progress() returned
    fd,             \* tracker -> where the file it holds open for writing is
    order,          \* the update_progress / log_error calls made, in call order
    \* ---- FileManager file by file, two stores on one root ----
    spc,            \* store session -> position inside its running save
    job,            \* store session -> the save it is running
    savelog         \* the _save_with_metadata writes completed since the last purge

lifeVars   == <<stack, exiting, exited, handler, second, cleanups, attempted,
                retry_count, tries, last_error, created, made, faulty,
                handled>>
crewVars   == <<llm, temp_llm, llm_cleaned, pc, current_topic, max_revisions, crew,
                result, exc, ret, kickoffs, calls, callbacks, lifeVars>>
storeVars  == <<store, store_dirs, now, writes, spc, job, savelog>>
ledgerVars == <<mem, fs, tpc, issued, saving, recovered, fd, order>>
vars       == <<crewVars, storeVars, ledgerVars>>

----------------------------------------------------------------------------
(* Bounds of the model *)

MaxCalls    == 2    \* process_with_revisions calls in one behaviour
MaxRevArg   == 2    \* largest max_revisions argument
MaxHistory  == 2    \* Step Events / Error Events kept in one ledger record
MaxWrites   == 2    \* artifact files written in one behaviour
MaxClock    == 1    \* last clock second
MaxLedgerCalls == 3 \* tracker calls in one call-by-call behaviour
MaxCleanups == 3    \* cleanup() calls on one instance
MaxHandles  == 2    \* LLM instances one orchestrator builds
MaxReviewWrites == 5 \* files written by save_review calls in one behaviour

None == "None"

----------------------------------------------------------------------------
(* Strings *)

\* Python's "sub in s"
Contains(s, sub) ==
    \E i \in 1..(Len(s) - Len(sub) + 1) : SubSeq(s, i, i + Len(sub) - 1) = sub

APPROVED_MARK == <<"APPROVED:">>
REVISION_MARK == <<"NEEDS REVISION:">>

\* kickoff() results: None, a string, or a dict as in tests/test_crew.py
NoneResult == [type |-> "none"]
StrResult(s) == [type |-> "str", s |-> s]
DictResult(content, feedback) ==
    [type |-> "dict", content |-> content, feedback |-> feedback]

\* str(result)
Str(r) ==
    CASE r.type = "str"  -> r.s
      [] r.type = "dict" -> <<"{'content': '">> \o r.content
                            \o <<"', 'approved': False, 'feedback': '">>
                            \o r.feedback \o <<"'}">>
      [] OTHER           -> <<"None">>

KickoffResults ==
    { NoneResult,
      StrResult(<<"APPROVED:", "article">>),
      StrResult(<<"NEEDS REVISION:", "feedback">>),
      StrResult(<<"article">>),
      DictResult(<<"Final draft">>, <<"NEEDS REVISION:", "feedback">>) }

Failures == { <<"Crew error">>, <<"LLM Error">> }

NoExc == [raised |-> FALSE]
Raised(msg) == [raised |-> TRUE, msg |-> msg]

NoReturn == [kind |-> "none"]
Value(text) == [kind |-> "value", text |-> text]

Topics == { "", "Test topic" }
DefaultTopic == "AI and Machine Learning"

----------------------------------------------------------------------------
(* ProgressTracker: the ledger record and its file *)

Trackers == { "t1", "t2" }
CrewTracker == "t1"            \* ResearchCrew._progress_tracker

\* both trackers are built with the same session id
SessionId(t) == "s1"

ProgressFile(t) == <<SessionId(t), "_progress", ".json">>
\* TempFile without with_suffix: the ledger file is written in place
\* (a faulty variant)
TempFileInPlace(t) == ProgressFile(t)

\* progress_file.with_suffix('.tmp')
TempFile(t) == <<SessionId(t), "_progress", ".tmp">>

LedgerPaths == UNION { {ProgressFile(t), TempFile(t)} : t \in Trackers }

\* file contents: absent, a complete JSON document, or a truncated one
NoFile == [written |-> "absent"]
Doc(rec) == [written |-> "all", doc |-> rec]
Part(rec) == [written |-> "part", doc |-> rec]

\* json.load accepting whatever the file holds (a faulty variant)
ReadableAny(f) == f.written # "absent"

\* json.load succeeds only on a complete document
Readable(f) == f.written = "all"

DefaultRecord(sid) ==
    [ session_id   |-> sid,
      current_step |-> 0,
      total_steps  |-> 0,
      status       |-> "Initializing",
      agent        |-> "System",
      description  |-> "Setting up progress tracking",
      start_time   |-> "T0",
      steps        |-> <<>>,
      errors       |-> <<>> ]

StepEvent(agent, step, total, status) ==
    [agent |-> agent, step |-> step, total |-> total, status |-> status]

\* update_progress without its reload: the in-memory record is kept
\* (a faulty variant)
LoadProgressSkipped(m, f) == m

\* _load_progress: dict.update with the loaded document; on any error the
\* in-memory record is kept
LoadProgress(m, f) ==
    IF Readable(f)
    THEN [k \in (DOMAIN m) \cup (DOMAIN f.doc) |->
            IF k \in DOMAIN f.doc THEN f.doc[k] ELSE m[k]]
    ELSE m

\* update_progress overwriting the step history with the new event
\* (a faulty variant)
UpdateRecordReplaces(m, agent, step, total, status) ==
    [m EXCEPT !.current_step = step,
              !.total_steps  = total,
              !.status       = status,
              !.agent        = agent,
              !.steps        = <<StepEvent(agent, step, total, status)>>]

\* update_progress, the in-memory part (after the reload)
UpdateRecord(m, agent, step, total, status) ==
    [m EXCEPT !.current_step = step,
              !.total_steps  = total,
              !.status       = status,
              !.agent        = agent,
              !.steps        = Append(@, StepEvent(agent, step, total, status))]

\* log_error, the in-memory part
LogErrorRecord(m, error) ==
    [m EXCEPT !.errors = Append(@, [error |-> error])]

\* os.replace(src, dst)
Rename(f, src, dst) ==
    IF src = dst THEN f
    ELSE [p \in DOMAIN f |->
            IF p = dst THEN f[src] ELSE IF p = src THEN NoFile ELSE f[p]]

\* an open file object: the path its file is linked at now, NoFd when the
\* tracker holds none, Unlinked when the file has no name any more
NoFd == <<>>
Unlinked == <<"unlinked">>

\* a file that holds the head of one document and the tail of a longer one
Mixed(rec) == [written |-> "mixed", doc |-> rec]

\* the serialized record a is certainly longer than b: it has at least b's
\* events of each list, and more of one
Longer(a, b) ==
    /\ Len(a.steps) >= Len(b.steps)
    /\ Len(a.errors) >= Len(b.errors)
    /\ Len(a.steps) + Len(a.errors) > Len(b.steps) + Len(b.errors)

\* json.dump through a file object opened with 'w': the document goes to
\* offset 0 of a file truncated at open time; what another writer has put
\* there since is overwritten, and the tail of a longer document stays
WriteOutcomes(existing, rec) ==
    IF existing.written \notin {"all", "mixed"} THEN { Doc(rec) }
    ELSE IF existing.written = "all" /\ existing.doc = rec THEN { Doc(rec) }
    ELSE IF Longer(existing.doc, rec) THEN { Mixed(existing.doc) }
    ELSE IF Longer(rec, existing.doc) THEN { Doc(rec) }
    ELSE { Doc(rec), Mixed(existing.doc) }

\* os.replace(src, dst) seen from the open file objects: a file linked at
\* src is linked at dst, the file that was at dst has no name left
FdAfterRename(fds, src, dst) ==
    IF src = dst THEN fds
    ELSE [u \in DOMAIN fds |->
            IF fds[u] = src THEN dst
            ELSE IF fds[u] = dst THEN Unlinked ELSE fds[u]]

\* unlink(path) seen from the open file objects
FdAfterUnlink(fds, path) ==
    [u \in DOMAIN fds |-> IF fds[u] = path THEN Unlinked ELSE fds[u]]

\* save_progress as one step: write the temp file, rename it over the real path
SavedFs(f, t, m) ==
    Rename([f EXCEPT ![TempFile(t)] = Doc(m)], TempFile(t), ProgressFile(t))

\* recover_progress: the document at the real path, or None (NoFile)
RecoverProgress(f, t) ==
    IF Readable(f[ProgressFile(t)]) THEN f[ProgressFile(t)] ELSE NoFile

Range(s) == { s[i] : i \in DOMAIN s }

----------------------------------------------------------------------------
(* FileManager: the artifact store *)

Dirs == { "research", "writing", "editing" }

\* ResearchCrew builds FileManager(base_dir="temp") without a session id, so
\* the store names its files after its own construction time
FmSession == "fm_20240101_000000"

\* a second store on the same root, built with FileManager(session_id=...)
OtherSession == "test_session"
StoreSessions == { FmSession, OtherSession }

\* <dir>/<session>_<timestamp>.json and editing/final.json
ArtifactPaths ==
    { <<d, sid, sec>> : d \in Dirs, sid \in StoreSessions, sec \in 0..MaxClock }
        \cup { <<"editing", "final", 0>> }
FinalPath == <<"editing", "final", 0>>

EmptyStore == [p \in ArtifactPaths |-> NoFile]

\* metadata dictionaries are sets of <<key, value>> pairs
SetKey(md, k, v) == { kv \in md : kv[1] # k } \cup { <<k, v>> }

\* _save_with_metadata
SaveWithMetadata(st, path, content, metadata, clock, w) ==
    [st EXCEPT ![path] =
        [ written |-> "all",
          doc     |-> [content |-> content, metadata |-> metadata,
                       timestamp |-> clock],
          mtime   |-> w ]]

\* save_research / save_article
SaveArtifact(st, dir, content, metadata, clock, w) ==
    SaveWithMetadata(st, <<dir, FmSession, clock>>, content, metadata, clock, w)

\* save_review mirroring every review (a faulty variant)
SaveReviewAlwaysMirrors(st, content, approved, metadata, clock, w) ==
    LET md == SetKey(metadata, "status",
                     IF approved THEN "APPROVED" ELSE "NEEDS_REVISION")
        st1 == SaveWithMetadata(st, <<"editing", FmSession, clock>>,
                                content, md, clock, w)
    IN  SaveWithMetadata(st1, FinalPath, content, md, clock, w + 1)

\* save_review: the status goes into the metadata, an approved review is
\* mirrored to editing/final.json
SaveReview(st, content, approved, metadata, clock, w) ==
    LET md == SetKey(metadata, "status",
                     IF approved THEN "APPROVED" ELSE "NEEDS_REVISION")
        st1 == SaveWithMetadata(st, <<"editing", FmSession, clock>>,
                                content, md, clock, w)
    IN  IF approved
        THEN SaveWithMetadata(st1, FinalPath, content, md, clock, w + 1)
        ELSE st1

Exists(st, p) == st[p].written # "absent"

\* glob("*.json") in the place of glob("<session_id>_*.json")
\* (a faulty variant)
AllFiles(st, dir, sid) ==
    { p \in ArtifactPaths : p[1] = dir /\ Exists(st, p) }

\* the files glob("<session_id>_*.json") finds in a directory
SessionFiles(st, dir, sid) ==
    { p \in ArtifactPaths : p[1] = dir /\ p[2] = sid /\ Exists(st, p) }

\* recover_session returns a non-empty state
HasSessionState(st, sid) ==
    \E d \in Dirs : SessionFiles(st, d, sid) # {}

\* the files glob("*.json") finds in a directory
DirFiles(st, dir) ==
    { p \in ArtifactPaths : p[1] = dir /\ Exists(st, p) }

\* max(files, key=st_mtime), the other way round (a faulty variant)
Oldest(st, files) ==
    CHOOSE p \in files : \A q \in files : st[p].mtime <= st[q].mtime

\* max(files, key=lambda x: x.stat().st_mtime)
Latest(st, files) ==
    CHOOSE p \in files : \A q \in files : st[q].mtime <= st[p].mtime

\* what a read hands back when there is no document: Python's None
NoneRead == [read |-> None]

\* _read_with_metadata: the document, or None when json.load fails
ReadWithMetadata(st, path) ==
    IF st[path].written = "all" THEN st[path].doc ELSE NoneRead

\* get_latest_research / get_latest_article / get_latest_review
GetLatest(st, dir) ==
    IF DirFiles(st, dir) = {} THEN NoneRead
    ELSE ReadWithMetadata(st, Latest(st, DirFiles(st, dir)))

\* recover_session: the keys of the state it builds ...
RecoveredKinds(st, sid) == { d \in Dirs : SessionFiles(st, d, sid) # {} }

\* ... and the state, None when it has no key
RecoverSession(st, sid) ==
    IF RecoveredKinds(st, sid) = {} THEN NoneRead
    ELSE [ d \in RecoveredKinds(st, sid) |->
             ReadWithMetadata(st, Latest(st, SessionFiles(st, d, sid))) ]

\* open(file_path, "w"): the file is created or truncated in place
Truncated(st, path, w) ==
    [st EXCEPT ![path] = [written |-> "part", mtime |-> w]]

\* a save in progress: the arguments of the save_* call and the file that
\* _save_with_metadata has open
NoJob == [dir |-> "none"]
Job(dir, path, content, metadata, approved, clock) ==
    [ dir |-> dir, path |-> path, content |-> content, metadata |-> metadata,
      approved |-> approved, timestamp |-> clock ]

\* one completed _save_with_metadata
LogEntry(sid, j) ==
    [ sid |-> sid, dir |-> j.dir, path |-> j.path,
      doc |-> [content |-> j.content, metadata |-> j.metadata,
               timestamp |-> j.timestamp] ]

----------------------------------------------------------------------------
(* ResearchCrew *)

Handle == "llm1"               \* the LLM instance _create_llm built in __init__

NoCrew == [built |-> FALSE]
Crew(l) == [built |-> TRUE, llm |-> l]

MaxRevisionsDefault == 3

\* the message of the except clause of process_with_revisions
ErrorMessage(e) == <<"Error during crew execution: ">> \o e

NoResponse == <<"Error: No response received from crew">>

\* FinalResult with the None test inverted (a faulty variant)
FinalResultInverted(r) == IF r.type # "none" THEN NoResponse ELSE Str(r)

\* what process_with_revisions returns for a kickoff result
FinalResult(r) == IF r.type = "none" THEN NoResponse ELSE Str(r)

\* the ResearchCrew instances of the process: c1 is the one whose state
\* the model holds, c2 a second one constructed later
Instances == { "c1", "c2" }
NoSecond == [built |-> FALSE]
Second(main) == [built |-> TRUE, main |-> main, llm |-> "llm_c2"]

\* the three steps of _cleanup
Steps == { "llm", "files", "tracker" }

\* the LLM instances _create_llm can build
HandleIds == { "llm1", "llm2", "llm3", "llm4" }

\* ClearedRef without the assignment of None (a faulty variant)
KeptRef(l) == l

\* _cleanup_llm: the reference after the call
ClearedRef(l) == None

\* ProgressTracker.cleanup: unlink the ledger file if it exists
Unlink(f, t) == [f EXCEPT ![ProgressFile(t)] = NoFile]

\* ---- process_with_revisions ----

\* entry: the default topic replaces an empty one, then the try block starts
Call(topic, n) ==
    /\ pc = "idle"
    /\ calls < MaxCalls
    /\ calls' = calls + 1
    /\ current_topic' = IF topic = "" THEN DefaultTopic ELSE topic
    /\ max_revisions' = n
    /\ crew' = NoCrew
    /\ result' = NoneResult
    /\ exc' = NoExc
    /\ ret' = NoReturn
    /\ kickoffs' = 0
    /\ pc' = "get_crew"
    /\ UNCHANGED <<lifeVars, llm, temp_llm, llm_cleaned, callbacks, storeVars, ledgerVars>>

\* crew = self.get_crew(topic): the agents are built with llm=self._llm
GetCrew ==
    /\ pc = "get_crew"
    /\ \/ /\ crew' = Crew(llm)
          /\ pc' = "kickoff"
          /\ exc' = exc
       \/ \E e \in Failures :
            /\ exc' = Raised(e)
            /\ pc' = "except"
            /\ crew' = crew
    /\ UNCHANGED <<lifeVars, llm, temp_llm, llm_cleaned, current_topic, max_revisions, result, ret,
                   kickoffs, calls, callbacks, storeVars, ledgerVars>>

\* result = crew.kickoff()
Kickoff ==
    /\ pc = "kickoff"
    /\ kickoffs' = kickoffs + 1
    /\ \/ \E r \in KickoffResults :
            /\ result' = r
            /\ pc' = "inspect"
            /\ exc' = exc
       \/ \E e \in Failures :
            /\ exc' = Raised(e)
            /\ pc' = "except"
            /\ result' = result
    /\ UNCHANGED <<lifeVars, llm, temp_llm, llm_cleaned, current_topic, max_revisions, crew, ret,
                   calls, callbacks, storeVars, ledgerVars>>

\* the result is inspected and returned; the markers only choose a log line
Inspect ==
    /\ pc = "inspect"
    /\ ret' = Value(FinalResult(result))
    /\ pc' = "cleanup_llm"
    /\ UNCHANGED <<lifeVars, llm, temp_llm, llm_cleaned, current_topic, max_revisions, crew, result,
                   exc, kickoffs, calls, callbacks, storeVars, ledgerVars>>

\* Except with a re-raise instead of the return (a faulty variant)
ExceptReraises ==
    /\ pc = "except"
    /\ ret' = [kind |-> "raise", msg |-> exc.msg]
    /\ pc' = "cleanup_llm"
    /\ UNCHANGED <<lifeVars, llm, temp_llm, llm_cleaned, current_topic, max_revisions,
                   crew, result, exc, kickoffs, calls, callbacks, storeVars,
                   ledgerVars>>

\* except Exception as e: return the error message
Except ==
    /\ pc = "except"
    /\ ret' = Value(ErrorMessage(exc.msg))
    /\ pc' = "cleanup_llm"
    /\ UNCHANGED <<lifeVars, llm, temp_llm, llm_cleaned, current_topic, max_revisions, crew, result,
                   exc, kickoffs, calls, callbacks, storeVars, ledgerVars>>

\* finally: self.cleanup() -> _cleanup -> _cleanup_llm: the reference is
\* cleared first, then the grace period starts; nothing to do without a handle
CleanupLlm ==
    /\ pc = "cleanup_llm"
    /\ IF llm # None
       THEN /\ temp_llm' = llm
            /\ llm' = ClearedRef(llm)
            /\ pc' = "grace"
       ELSE /\ UNCHANGED <<llm, temp_llm>>
            /\ pc' = "cleanup_fm"
    /\ UNCHANGED <<lifeVars, llm_cleaned, current_topic, max_revisions, crew, result, exc,
                   ret, kickoffs, calls, callbacks, storeVars, ledgerVars>>

\* after time.sleep(1): temp_llm.cleanup(); an error it raises is logged only
LlmDrain ==
    /\ pc = "grace"
    /\ llm_cleaned' = llm_cleaned \cup {temp_llm}
    /\ temp_llm' = None
    /\ pc' = "cleanup_fm"
    /\ UNCHANGED <<lifeVars, llm, current_topic, max_revisions, crew, result, exc, ret,
                   kickoffs, calls, callbacks, storeVars, ledgerVars>>

\* self._file_manager.cleanup(): shutil.rmtree("temp") takes the artifact
\* directories and temp/progress, the ledger's directory, with them
CleanupFiles ==
    /\ pc = "cleanup_fm"
    /\ store' = EmptyStore
    /\ store_dirs' = FALSE
    /\ fs' = [p \in LedgerPaths |-> NoFile]
    /\ pc' = "cleanup_pt"
    /\ UNCHANGED <<lifeVars, llm, temp_llm, llm_cleaned, current_topic, max_revisions, crew, result,
                   exc, ret, kickoffs, calls, callbacks, now, writes, spc, job,
                   savelog,
                   mem, tpc, issued, saving, recovered, fd, order>>

\* self._progress_tracker.cleanup()
CleanupTracker ==
    /\ pc = "cleanup_pt"
    /\ fs' = Unlink(fs, CrewTracker)
    /\ pc' = "done"
    /\ UNCHANGED <<lifeVars, llm, temp_llm, llm_cleaned, current_topic, max_revisions, crew, result,
                   exc, ret, kickoffs, calls, callbacks, storeVars,
                   mem, tpc, issued, saving, recovered, fd, order>>

\* the caller has the returned value; the locals of the call are gone
Return ==
    /\ pc = "done"
    /\ pc' = "idle"
    /\ max_revisions' = MaxRevisionsDefault
    /\ crew' = NoCrew
    /\ result' = NoneResult
    /\ exc' = NoExc
    /\ ret' = NoReturn
    /\ kickoffs' = 0
    /\ UNCHANGED <<lifeVars, llm, temp_llm, llm_cleaned, current_topic, calls, callbacks,
                   storeVars, ledgerVars>>

\* ---- operations a client runs between calls ----

\* _report_progress: the tracker is updated (reload, append, save), then the
\* callback is invoked
ReportProgress(agent, step, total, status) ==
    LET t  == CrewTracker
        m2 == UpdateRecord(LoadProgress(mem[t], fs[ProgressFile(t)]),
                           agent, step, total, status)
    IN  /\ mem' = [mem EXCEPT ![t] = m2]
        /\ fs' = SavedFs(fs, t, m2)
        /\ issued' = issued \cup {StepEvent(agent, step, total, status)}
        /\ callbacks' = Append(callbacks, <<agent, step, total, status>>)

\* _recover_state(session_id): file state, then the ledger, then a progress
\* report from agent "System"
RecoverState(sid) ==
    /\ pc = "idle"
    /\ Len(mem[CrewTracker].steps) < MaxHistory
    /\ Len(callbacks) < MaxHistory
    /\ HasSessionState(store, sid)
    /\ LET progress == RecoverProgress(fs, CrewTracker)
       IN  IF Readable(progress)
           THEN /\ recovered' = progress
                /\ ReportProgress("System", progress.doc.current_step,
                                  progress.doc.total_steps,
                                  "Recovered previous session state")
           ELSE /\ recovered' = NoFile
                /\ UNCHANGED <<mem, fs, issued, callbacks>>
    /\ UNCHANGED <<lifeVars, llm, temp_llm, llm_cleaned, pc, current_topic, max_revisions,
                   crew, result, exc, ret, kickoffs, calls, storeVars, tpc,
                   saving, fd, order>>

\* save_checkpoint: one more Step Event from "System" at the current step
SaveCheckpoint ==
    /\ pc = "idle"
    /\ Len(mem[CrewTracker].steps) < MaxHistory
    /\ LET t  == CrewTracker
           m2 == UpdateRecord(LoadProgress(mem[t], fs[ProgressFile(t)]),
                              "System", mem[t].current_step,
                              mem[t].total_steps, "Checkpoint saved")
       IN  /\ Len(m2.steps) <= MaxHistory
           /\ mem' = [mem EXCEPT ![t] = m2]
           /\ fs' = SavedFs(fs, t, m2)
           /\ issued' = issued \cup {m2.steps[Len(m2.steps)]}
    /\ UNCHANGED <<crewVars, storeVars, tpc, saving, recovered, fd, order>>

\* save_research / save_article / save_review on the crew's store
\* (sec: the clock second at which the save runs)
StoreSave(dir, content, approved, sec) ==
    /\ pc = "idle"
    /\ store_dirs
    /\ writes < MaxWrites
    /\ sec >= now
    /\ now' = sec
    /\ IF dir = "editing"
       THEN /\ store' = SaveReview(store, content, approved, {}, sec, writes + 1)
            /\ writes' = writes + (IF approved THEN 2 ELSE 1)
       ELSE /\ store' = SaveArtifact(store, dir, content, {}, sec, writes + 1)
            /\ writes' = writes + 1
    /\ UNCHANGED <<crewVars, store_dirs, spc, job, savelog, ledgerVars>>

\* ---- the orchestrator after ResearchCrew() ----

NoSave == [old |-> NoFile, new |-> DefaultRecord("s1"), active |-> FALSE]

\* ResearchCrew.__init__ on the main thread: the signal handlers are this
\* instance's, no cleanup has run; f: the cleanup steps a test has replaced
InitLifecycle(f) ==
    /\ stack = <<>>
    /\ exiting = FALSE
    /\ exited = FALSE
    /\ handler = "c1"
    /\ second = NoSecond
    /\ cleanups = [i \in Instances |-> 0]
    /\ attempted = <<>>
    /\ retry_count = 0
    /\ tries = <<>>
    /\ last_error = NoExc
    /\ created = NoReturn
    /\ made = {Handle}
    /\ faulty = f
    /\ handled = {}

\* ResearchCrew.__init__: the handle is created, nothing runs
InitCall ==
    /\ llm = Handle
    /\ temp_llm = None
    /\ llm_cleaned = {}
    /\ pc = "idle"
    /\ current_topic = None
    /\ max_revisions = MaxRevisionsDefault
    /\ crew = NoCrew
    /\ result = NoneResult
    /\ exc = NoExc
    /\ ret = NoReturn
    /\ kickoffs = 0
    /\ calls = 0
    /\ callbacks = <<>>

InitCrew == InitCall /\ InitLifecycle({})

\* FileManager.__init__: the three directories exist and are empty
InitStore ==
    /\ store = EmptyStore
    /\ store_dirs = TRUE
    /\ spc = [s \in StoreSessions |-> "idle"]
    /\ job = [s \in StoreSessions |-> NoJob]
    /\ savelog = <<>>
    /\ now = 0
    /\ writes = 0

\* ProgressTracker.__init__ of the trackers in built: the first one creates
\* the ledger file with the default record, the others load it
InitLedger(built) ==
    /\ mem = [t \in Trackers |-> DefaultRecord(SessionId(t))]
    /\ fs = [p \in LedgerPaths |->
                IF p = ProgressFile(CrewTracker)
                THEN Doc(DefaultRecord(SessionId(CrewTracker))) ELSE NoFile]
    /\ tpc = [t \in Trackers |-> IF t \in built THEN "idle" ELSE "none"]
    /\ issued = {}
    /\ saving = NoSave
    /\ recovered = NoFile
    /\ fd = [t \in Trackers |-> NoFd]
    /\ order = <<>>

Init == InitCrew /\ InitStore /\ InitLedger({CrewTracker})

Next ==
    \/ \E topic \in Topics, n \in 1..MaxRevArg : Call(topic, n)
    \/ GetCrew
    \/ Kickoff
    \/ Inspect
    \/ Except
    \/ CleanupLlm
    \/ LlmDrain
    \/ CleanupFiles
    \/ CleanupTracker
    \/ Return
    \/ \E sid \in {FmSession, SessionId(CrewTracker)} : RecoverState(sid)
    \/ SaveCheckpoint
    \/ \E d \in Dirs, a \in BOOLEAN, sec \in 0..MaxClock :
            StoreSave(d, "X", a, sec)

Spec == Init /\ [][Next]_vars

----------------------------------------------------------------------------
(* ProgressTracker step by step: two trackers of one session, and a crash *)

AgentOf(t) == IF t = "t1" THEN "Agent1" ELSE "Agent2"
StatusOf(step) == <<"Step", step>>
TotalSteps == 3

\* update_progress up to the call of save_progress: reload, overwrite the
\* scalar fields, append the Step Event
UpdateLoad(t, agent, step, total, status) ==
    /\ tpc[t] = "idle"
    /\ LET m2 == UpdateRecord(LoadProgress(mem[t], fs[ProgressFile(t)]),
                              agent, step, total, status)
       IN  /\ Len(m2.steps) <= MaxHistory
           /\ mem' = [mem EXCEPT ![t] = m2]
           /\ issued' = issued \cup {StepEvent(agent, step, total, status)}
    /\ tpc' = [tpc EXCEPT ![t] = "save"]
    /\ UNCHANGED <<crewVars, storeVars, fs, saving, recovered, fd, order>>

\* log_error up to the call of save_progress
LogError(t, error) ==
    /\ tpc[t] = "idle"
    /\ Len(mem[t].errors) < MaxHistory
    /\ mem' = [mem EXCEPT ![t] = LogErrorRecord(@, error)]
    /\ tpc' = [tpc EXCEPT ![t] = "save"]
    /\ UNCHANGED <<crewVars, storeVars, fs, issued, saving, recovered, fd, order>>

\* save_progress as one step
SaveAll(t) ==
    /\ tpc[t] = "save"
    /\ fs' = SavedFs(fs, t, mem[t])
    /\ tpc' = [tpc EXCEPT ![t] = "idle"]
    /\ UNCHANGED <<crewVars, storeVars, mem, issued, saving, recovered, fd, order>>

\* save_progress, file operation by file operation:
\* open(temp_file, 'w') truncates the temporary file
SaveOpen(t) ==
    /\ tpc[t] = "save"
    /\ saving' = [old |-> fs[ProgressFile(t)], new |-> mem[t], active |-> TRUE]
    /\ fs' = [fs EXCEPT ![TempFile(t)] = Part(mem[t])]
    /\ fd' = [fd EXCEPT ![t] = TempFile(t)]
    /\ tpc' = [tpc EXCEPT ![t] = "write"]
    /\ UNCHANGED <<crewVars, storeVars, mem, issued, recovered, order>>

\* json.dump and the end of the with block: the document is written to the
\* file the tracker opened, wherever that file is linked by now
SaveClose(t) ==
    /\ tpc[t] = "write"
    /\ IF fd[t] \in DOMAIN fs
       THEN \E c \in WriteOutcomes(fs[fd[t]], mem[t]) :
               fs' = [fs EXCEPT ![fd[t]] = c]
       ELSE fs' = fs
    /\ fd' = [fd EXCEPT ![t] = NoFd]
    /\ tpc' = [tpc EXCEPT ![t] = "replace"]
    /\ UNCHANGED <<crewVars, storeVars, mem, issued, saving, recovered, order>>

\* temp_file.replace(self.progress_file); FileNotFoundError, which
\* save_progress re-raises, when the temporary file is not there any more
SaveReplace(t) ==
    /\ tpc[t] = "replace"
    /\ IF Exists(fs, TempFile(t))
       THEN /\ fs' = Rename(fs, TempFile(t), ProgressFile(t))
            /\ fd' = FdAfterRename(fd, TempFile(t), ProgressFile(t))
       ELSE UNCHANGED <<fs, fd>>
    /\ tpc' = [tpc EXCEPT ![t] = "idle"]
    /\ UNCHANGED <<crewVars, storeVars, mem, issued, saving, recovered, order>>

\* the process dies: its memory is gone, the files stay as they are
Crash(t) ==
    /\ tpc[t] \in {"idle", "save", "write", "replace"}
    /\ tpc' = [tpc EXCEPT ![t] = "dead"]
    /\ mem' = [mem EXCEPT ![t] = DefaultRecord(SessionId(t))]
    /\ fd' = [fd EXCEPT ![t] = NoFd]
    /\ UNCHANGED <<crewVars, storeVars, fs, issued, saving, recovered, order>>

\* ProgressTracker.__init__ in a new process: load the ledger file when it
\* exists, else create it
Restart(t) ==
    /\ tpc[t] = "dead"
    /\ IF fs[ProgressFile(t)].written # "absent"
       THEN /\ mem' = [mem EXCEPT ![t] =
                          LoadProgress(DefaultRecord(SessionId(t)),
                                       fs[ProgressFile(t)])]
            /\ tpc' = [tpc EXCEPT ![t] = "idle"]
       ELSE /\ mem' = [mem EXCEPT ![t] = DefaultRecord(SessionId(t))]
            /\ tpc' = [tpc EXCEPT ![t] = "save"]
    /\ UNCHANGED <<crewVars, storeVars, fs, issued, saving, recovered, fd, order>>

\* recover_progress
RecoverStep(t) ==
    /\ tpc[t] = "idle"
    /\ recovered' = RecoverProgress(fs, t)
    /\ mem' = [mem EXCEPT ![t] =
                  IF Readable(recovered') THEN recovered'.doc ELSE @]
    /\ tpc' = [tpc EXCEPT ![t] = "recovered"]
    /\ UNCHANGED <<crewVars, storeVars, fs, issued, saving, fd>>

Recover(t) == RecoverStep(t) /\ UNCHANGED order

\* ... and its caller has the result
RecoverReturn(t) ==
    /\ tpc[t] = "recovered"
    /\ tpc' = [tpc EXCEPT ![t] = "idle"]
    /\ recovered' = NoFile
    /\ UNCHANGED <<crewVars, storeVars, mem, fs, issued, saving, fd, order>>

\* ProgressTracker.cleanup
LedgerCleanup(t) ==
    /\ tpc[t] = "idle"
    /\ fs[ProgressFile(t)].written # "absent"
    /\ fs' = Unlink(fs, t)
    /\ fd' = FdAfterUnlink(fd, ProgressFile(t))
    /\ saving' = NoSave
    /\ UNCHANGED <<crewVars, storeVars, mem, tpc, issued, recovered, order>>

\* one tracker, its writes interrupted by crashes
NextCrash ==
    \/ \E step \in 1..2 :
          UpdateLoad("t1", AgentOf("t1"), step, TotalSteps, StatusOf(step))
    \/ LogError("t1", <<"LLM Error">>)
    \/ SaveOpen("t1")
    \/ SaveClose("t1")
    \/ SaveReplace("t1")
    \/ Crash("t1")
    \/ Restart("t1")
    \/ Recover("t1")
    \/ RecoverReturn("t1")
    \/ LedgerCleanup("t1")

SpecCrash == Init /\ [][NextCrash]_vars

\* two trackers of one session, both constructed
InitRace == InitCrew /\ InitStore /\ InitLedger(Trackers)

NextRace ==
    \/ \E t \in Trackers, step \in 1..2 :
          UpdateLoad(t, AgentOf(t), step, TotalSteps, StatusOf(step))
    \/ \E t \in Trackers : SaveAll(t)

SpecRace == InitRace /\ [][NextRace]_vars

\* two trackers of one session, their save_progress calls interleaved file
\* operation by file operation
NextShared ==
    \/ \E t \in Trackers, step \in 1..2 :
          UpdateLoad(t, AgentOf(t), step, TotalSteps, StatusOf(step))
    \/ \E t \in Trackers : SaveOpen(t)
    \/ \E t \in Trackers : SaveClose(t)
    \/ \E t \in Trackers : SaveReplace(t)

SpecShared == InitRace /\ [][NextShared]_vars

----------------------------------------------------------------------------
(* ProgressTracker call by call: two trackers of one session, each call *)
(* finished before the next one starts                                   *)

UpdateEntry(t, ev) == [call |-> "update_progress", tracker |-> t, event |-> ev]
ErrorEntry(t, error) == [call |-> "log_error", tracker |-> t, error |-> error]
RecoverEntry(t) == [call |-> "recover_progress", tracker |-> t]

\* update_progress, the whole call
UpdateCall(t, agent, step, total, status) ==
    /\ \A u \in Trackers : tpc[u] = "idle"
    /\ Len(order) < MaxLedgerCalls
    /\ LET m2 == UpdateRecord(LoadProgress(mem[t], fs[ProgressFile(t)]),
                              agent, step, total, status)
       IN  /\ Len(m2.steps) <= MaxHistory
           /\ mem' = [mem EXCEPT ![t] = m2]
           /\ fs' = SavedFs(fs, t, m2)
    /\ issued' = issued \cup {StepEvent(agent, step, total, status)}
    /\ order' = Append(order,
                       UpdateEntry(t, StepEvent(agent, step, total, status)))
    /\ UNCHANGED <<crewVars, storeVars, tpc, saving, recovered, fd>>

\* log_error, the whole call: the in-memory record is not reloaded
LogErrorCall(t, error) ==
    /\ \A u \in Trackers : tpc[u] = "idle"
    /\ Len(order) < MaxLedgerCalls
    /\ Len(mem[t].errors) < MaxHistory
    /\ mem' = [mem EXCEPT ![t] = LogErrorRecord(@, error)]
    /\ fs' = SavedFs(fs, t, LogErrorRecord(mem[t], error))
    /\ order' = Append(order, ErrorEntry(t, error))
    /\ UNCHANGED <<crewVars, storeVars, tpc, issued, saving, recovered, fd>>

\* recover_progress, up to its return
RecoverCall(t) ==
    /\ \A u \in Trackers : tpc[u] = "idle"
    /\ Len(order) < MaxLedgerCalls
    /\ RecoverStep(t)
    /\ order' = Append(order, RecoverEntry(t))

\* get_step_history
GetStepHistory(t) == mem[t].steps

NextCalls ==
    \/ \E t \in Trackers, step \in 1..2 :
          UpdateCall(t, AgentOf(t), step, TotalSteps, StatusOf(step))
    \/ \E t \in Trackers : LogErrorCall(t, <<"LLM Error">>)
    \/ \E t \in Trackers : RecoverCall(t)
    \/ \E t \in Trackers : RecoverReturn(t)

SpecCalls == InitRace /\ [][NextCalls]_vars

\* ---- one tracker, call by call, with failing writes and a damaged file ----

Solo == "t1"

\* datetime.now().isoformat() at the n-th construction
StartTime(n) == <<"T1", "T2", "T3", "T4", "T5", "T6">>[n]

\* the default record of a tracker constructed as the n-th
FreshRecord(sid, n) == [DefaultRecord(sid) EXCEPT !.start_time = StartTime(n)]

\* save_progress raising: at open(temp_file, 'w'), inside json.dump, or at
\* temp_file.replace; the ledger file itself is not touched
SaveFailures(f, t, m) ==
    { f,
      [f EXCEPT ![TempFile(t)] = Part(m)],
      [f EXCEPT ![TempFile(t)] = Doc(m)] }

\* cleanup resetting the in-memory record (a faulty variant)
CleanupRecordReset(m) == DefaultRecord(m.session_id)

\* ProgressTracker.cleanup touches the file only
CleanupRecord(m) == m

\* one finished call: its argument, whether it raised to its caller, whether
\* it persisted the record
NoArg == <<>>
SoloEntry(call, arg, raised, saved) ==
    [ call |-> call, tracker |-> Solo, arg |-> arg, raised |-> raised,
      saved |-> saved ]

\* update_progress; save_progress re-raises what it catches
SoloUpdate(agent, step, total, status, ok) ==
    /\ Len(order) < MaxLedgerCalls
    /\ LET m2 == UpdateRecord(LoadProgress(mem[Solo], fs[ProgressFile(Solo)]),
                              agent, step, total, status)
       IN  /\ Len(m2.steps) <= MaxHistory
           /\ mem' = [mem EXCEPT ![Solo] = m2]
           /\ IF ok THEN fs' = SavedFs(fs, Solo, m2)
                    ELSE fs' \in SaveFailures(fs, Solo, m2)
    /\ issued' = issued \cup {StepEvent(agent, step, total, status)}
    /\ order' = Append(order, SoloEntry("update_progress",
                                 StepEvent(agent, step, total, status),
                                 ~ok, ok))
    /\ UNCHANGED <<crewVars, storeVars, tpc, saving, recovered, fd>>

\* log_error; its except clause logs what save_progress raised
SoloLogError(error, ok) ==
    /\ Len(order) < MaxLedgerCalls
    /\ Len(mem[Solo].errors) < MaxHistory
    /\ mem' = [mem EXCEPT ![Solo] = LogErrorRecord(@, error)]
    /\ IF ok THEN fs' = SavedFs(fs, Solo, LogErrorRecord(mem[Solo], error))
             ELSE fs' \in SaveFailures(fs, Solo, LogErrorRecord(mem[Solo], error))
    /\ order' = Append(order, SoloEntry("log_error", error, FALSE, ok))
    /\ UNCHANGED <<crewVars, storeVars, tpc, issued, saving, recovered, fd>>

\* recover_progress; recovered is what it returned
SoloRecover ==
    /\ Len(order) < MaxLedgerCalls
    /\ recovered' = RecoverProgress(fs, Solo)
    /\ mem' = [mem EXCEPT ![Solo] =
                  IF Readable(recovered') THEN recovered'.doc ELSE @]
    /\ order' = Append(order, SoloEntry("recover_progress", NoArg, FALSE, FALSE))
    /\ UNCHANGED <<crewVars, storeVars, fs, tpc, issued, saving, fd>>

\* ProgressTracker.cleanup
SoloCleanup ==
    /\ Len(order) < MaxLedgerCalls
    /\ fs' = IF Exists(fs, ProgressFile(Solo)) THEN Unlink(fs, Solo) ELSE fs
    /\ mem' = [mem EXCEPT ![Solo] = CleanupRecord(@)]
    /\ order' = Append(order, SoloEntry("cleanup", NoArg, FALSE, FALSE))
    /\ UNCHANGED <<crewVars, storeVars, tpc, issued, saving, recovered, fd>>

\* ProgressTracker(session_id) once more, in the place of the tracker: the
\* default record, then _load_progress if the file exists, else save_progress
SoloConstruct ==
    /\ Len(order) < MaxLedgerCalls
    /\ LET fresh == FreshRecord(SessionId(Solo), Len(order) + 2)
       IN  IF Exists(fs, ProgressFile(Solo))
           THEN /\ mem' = [mem EXCEPT ![Solo] =
                              LoadProgress(fresh, fs[ProgressFile(Solo)])]
                /\ fs' = fs
           ELSE /\ mem' = [mem EXCEPT ![Solo] = fresh]
                /\ fs' = SavedFs(fs, Solo, fresh)
    /\ order' = Append(order, SoloEntry("construct", NoArg, FALSE, FALSE))
    /\ UNCHANGED <<crewVars, storeVars, tpc, issued, saving, recovered, fd>>

\* the ledger file is damaged from outside: it is no JSON document any more
\* (tests/utils/test_progress_tracker.py writes "invalid json" into it)
SoloCorrupt ==
    /\ Readable(fs[ProgressFile(Solo)])
    /\ fs' = [fs EXCEPT ![ProgressFile(Solo)] = Part(@.doc)]
    /\ UNCHANGED <<crewVars, storeVars, mem, tpc, issued, saving, recovered,
                   fd, order>>

NextSolo ==
    \/ \E step \in 1..2, ok \in BOOLEAN :
          SoloUpdate(AgentOf(Solo), step, TotalSteps, StatusOf(step), ok)
    \/ \E ok \in BOOLEAN : SoloLogError(<<"LLM Error">>, ok)
    \/ SoloRecover
    \/ SoloCleanup
    \/ SoloConstruct
    \/ SoloCorrupt

SpecSolo == Init /\ [][NextSolo]_vars

----------------------------------------------------------------------------
(* FileManager file by file: two stores with different session ids on one *)
(* root directory                                                         *)

Contents == { "X", "Y" }

\* files open for writing
InFlight == Cardinality({ s \in StoreSessions : spc[s] = "dump" })

\* files opened since the start: every open and every close counts in writes
Opened == (writes + InFlight) \div 2

\* final.json mirrors the running saves have still to write
Reserved ==
    Cardinality({ s \in StoreSessions :
                    \/ spc[s] = "mirror"
                    \/ spc[s] = "dump" /\ job[s].approved
                                       /\ job[s].path # FinalPath })

\* save_research / save_article / save_review up to open(file_path, "w") in
\* _save_with_metadata: the name is built from the clock second, the file is
\* created or truncated
SaveBegin(s, dir, content, approved, sec) ==
    /\ spc[s] = "idle"
    /\ approved => dir = "editing"
    /\ store_dirs
    /\ Opened + Reserved + (IF approved THEN 2 ELSE 1) <= MaxWrites
    /\ sec >= now
    /\ now' = sec
    /\ LET path == <<dir, s, sec>>
           md   == IF dir = "editing"
                   THEN SetKey({}, "status",
                               IF approved THEN "APPROVED" ELSE "NEEDS_REVISION")
                   ELSE {}
       IN  /\ store' = Truncated(store, path, writes + 1)
           /\ job' = [job EXCEPT ![s] = Job(dir, path, content, md, approved, sec)]
    /\ writes' = writes + 1
    /\ spc' = [spc EXCEPT ![s] = "dump"]
    /\ UNCHANGED <<crewVars, store_dirs, savelog, ledgerVars>>

\* json.dump and the end of the with block; an approved review goes on to
\* its mirror
SaveDump(s) ==
    /\ spc[s] = "dump"
    /\ store' = SaveWithMetadata(store, job[s].path, job[s].content,
                                 job[s].metadata, job[s].timestamp, writes + 1)
    /\ writes' = writes + 1
    /\ savelog' = Append(savelog, LogEntry(s, job[s]))
    /\ IF job[s].approved /\ job[s].path # FinalPath
       THEN /\ spc' = [spc EXCEPT ![s] = "mirror"]
            /\ job' = job
       ELSE /\ spc' = [spc EXCEPT ![s] = "idle"]
            /\ job' = [job EXCEPT ![s] = NoJob]
    /\ UNCHANGED <<crewVars, store_dirs, now, ledgerVars>>

\* save_review, approved: _save_with_metadata(content, metadata, final_path)
\* up to its open
SaveMirror(s) ==
    /\ spc[s] = "mirror"
    /\ store' = Truncated(store, FinalPath, writes + 1)
    /\ job' = [job EXCEPT ![s].path = FinalPath, ![s].timestamp = now]
    /\ writes' = writes + 1
    /\ spc' = [spc EXCEPT ![s] = "dump"]
    /\ UNCHANGED <<crewVars, store_dirs, now, savelog, ledgerVars>>

\* FileManager.cleanup of either store, no save running: shutil.rmtree of
\* the shared root
StorePurge ==
    /\ \A s \in StoreSessions : spc[s] = "idle"
    /\ store_dirs
    /\ store' = EmptyStore
    /\ store_dirs' = FALSE
    /\ savelog' = <<>>
    /\ fs' = [p \in LedgerPaths |-> NoFile]
    /\ UNCHANGED <<crewVars, now, writes, spc, job,
                   mem, tpc, issued, saving, recovered, fd, order>>

\* FileManager.__init__ of a new store on the root: _setup_directories
StoreConstruct ==
    /\ store_dirs' = TRUE
    /\ UNCHANGED <<crewVars, store, now, writes, spc, job, savelog, ledgerVars>>

NextStore ==
    \/ \E s \in StoreSessions, d \in Dirs, c \in Contents, a \in BOOLEAN,
          sec \in 0..MaxClock :
          SaveBegin(s, d, c, a, sec)
    \/ \E s \in StoreSessions : SaveDump(s)
    \/ \E s \in StoreSessions : SaveMirror(s)
    \/ StorePurge
    \/ StoreConstruct

SpecStore == Init /\ [][NextStore]_vars

\* ---- a purge in which one removal fails ----

\* shutil.rmtree(self.base_dir) with the default onerror: os.unlink of the
\* file at path raises, rmtree raises at once and cleanup logs the error.
\* Gone are the entries that os.scandir listed before it: the directories
\* in before as a whole, the files in siblings, the ledger directory if
\* ledger_first
StorePurgeFails(path, before, ledger_first) ==
    /\ \A s \in StoreSessions : spc[s] = "idle"
    /\ store_dirs
    /\ Exists(store, path)
    /\ path[1] \notin before
    /\ \E siblings \in SUBSET (DirFiles(store, path[1]) \ {path}) :
          store' = [q \in ArtifactPaths |->
                       IF q[1] \in before \/ q \in siblings
                       THEN NoFile ELSE store[q]]
    /\ fs' = IF ledger_first THEN [q \in LedgerPaths |-> NoFile] ELSE fs
    /\ UNCHANGED <<crewVars, store_dirs, now, writes, spc, job, savelog,
                   mem, tpc, issued, saving, recovered, fd, order>>

NextPurge ==
    \/ \E d \in Dirs, c \in Contents, a \in BOOLEAN, sec \in 0..MaxClock :
          StoreSave(d, c, a, sec)
    \/ StorePurge
    \/ StoreConstruct
    \/ \E path \in ArtifactPaths, before \in SUBSET Dirs,
          ledger_first \in BOOLEAN :
          StorePurgeFails(path, before, ledger_first)

SpecPurge == Init /\ [][NextPurge]_vars

\* ---- save_review, call by call ----

\* the arguments of one completed save_review call
ReviewEntry(content, approved, sec) ==
    [ sid |-> FmSession, dir |-> "editing", path |-> <<"editing", FmSession, sec>>,
      content |-> content, approved |-> approved ]

\* file_manager.save_review(content, approved) at clock second sec
ReviewSave(content, approved, sec) ==
    /\ store_dirs
    /\ writes + (IF approved THEN 2 ELSE 1) <= MaxReviewWrites
    /\ sec >= now
    /\ now' = sec
    /\ store' = SaveReview(store, content, approved, {}, sec, writes + 1)
    /\ writes' = writes + (IF approved THEN 2 ELSE 1)
    /\ savelog' = Append(savelog, ReviewEntry(content, approved, sec))
    /\ UNCHANGED <<crewVars, store_dirs, spc, job, ledgerVars>>

NextReview ==
    \/ \E c \in Contents, a \in BOOLEAN, sec \in 0..MaxClock :
          ReviewSave(c, a, sec)
    \/ StorePurge
    \/ StoreConstruct

SpecReview == Init /\ [][NextReview]_vars

----------------------------------------------------------------------------
(* ResearchCrew.cleanup(), the signal handlers and _create_llm, on the     *)
(* frames of the main thread                                               *)

Top == stack[Len(stack)]
Pop(stk) == SubSeq(stk, 1, Len(stk) - 1)
SetTop(stk, f) == Append(Pop(stk), f)

Running == stack # <<>> /\ ~exiting
AtRest == stack = <<>> /\ ~exiting /\ ~exited

\* what no step of this part changes
frameVars == <<pc, current_topic, max_revisions, crew, result, exc, ret,
               kickoffs, calls, callbacks, faulty, now, writes, spc, job,
               savelog, mem, tpc, issued, saving, recovered, fd, order>>
createVars == <<retry_count, tries, last_error, created, made>>

\* shutil.rmtree left out (a faulty variant)
RmtreeSkipped(st) == st

\* shutil.rmtree(self.base_dir): nothing is left under the root
Rmtree(st) == EmptyStore

\* a raising step ends _cleanup (a faulty variant)
AfterRaiseAborts(stk, next) == Pop(stk)

\* _cleanup: "except Exception as e: errors.append(...)", then the next step
AfterRaise(stk, next) ==
    IF next = "return" THEN Pop(stk) ELSE SetTop(stk, next)

\* a step that ends without raising
AfterStep(stk, next) ==
    IF next = "return" THEN Pop(stk) ELSE SetTop(stk, next)

\* process_with_revisions is called
LifeCall ==
    /\ AtRest
    /\ cleanups["c1"] + 2 <= MaxCleanups
    /\ stack' = <<"try">>
    /\ UNCHANGED <<llm, temp_llm, llm_cleaned, exiting, exited, handler, second,
                   cleanups, attempted, createVars, handled, store, store_dirs,
                   fs, frameVars>>

\* the try block ends, by a return or in the except clause
LifeBodyEnds ==
    /\ Running
    /\ Top = "try"
    /\ stack' = SetTop(stack, "finally")
    /\ UNCHANGED <<llm, temp_llm, llm_cleaned, exiting, exited, handler, second,
                   cleanups, attempted, createVars, handled, store, store_dirs,
                   fs, frameVars>>

\* finally: time.sleep(1); self.cleanup()
FinallyCleanup ==
    /\ Running
    /\ Top \in {"finally", "finally_exit"}
    /\ stack' = SetTop(stack, IF Top = "finally" THEN "in_finally"
                                                 ELSE "in_finally_exit")
                  \o <<"c_llm">>
    /\ cleanups' = [cleanups EXCEPT !["c1"] = @ + 1]
    /\ attempted' = <<>>
    /\ UNCHANGED <<llm, temp_llm, llm_cleaned, exiting, exited, handler, second,
                   createVars, handled, store, store_dirs, fs, frameVars>>

\* cleanup_resources of the UI, or a direct call: crew.cleanup()
UiCleanup ==
    /\ AtRest
    /\ cleanups["c1"] + 2 <= MaxCleanups
    /\ stack' = <<"in_ui", "c_llm">>
    /\ cleanups' = [cleanups EXCEPT !["c1"] = @ + 1]
    /\ attempted' = <<>>
    /\ UNCHANGED <<llm, temp_llm, llm_cleaned, exiting, exited, handler, second,
                   createVars, handled, store, store_dirs, fs, frameVars>>

\* SIGINT or SIGTERM, between any two steps of the main thread: the handler
\* installed last runs; here it is c1's: self.cleanup(), then sys.exit(0)
Signal ==
    /\ ~exiting /\ ~exited
    /\ handled = {}
    /\ handler = "c1"
    /\ stack' = stack \o <<"in_handler", "c_llm">>
    /\ cleanups' = [cleanups EXCEPT !["c1"] = @ + 1]
    /\ attempted' = <<>>
    /\ handled' = {"c1"}
    /\ UNCHANGED <<llm, temp_llm, llm_cleaned, exiting, exited, handler, second,
                   createVars, store, store_dirs, fs, frameVars>>

\* the same with the handler of the second instance: its cleanup() runs as
\* a whole, then sys.exit(0)
SignalSecond ==
    /\ ~exiting /\ ~exited
    /\ handled = {}
    /\ handler = "c2"
    /\ llm_cleaned' = llm_cleaned \cup {second.llm}
    /\ store' = Rmtree(store)
    /\ store_dirs' = FALSE
    /\ fs' = [p \in LedgerPaths |-> NoFile]
    /\ cleanups' = [cleanups EXCEPT !["c2"] = @ + 1]
    /\ handled' = {"c2"}
    /\ exiting' = TRUE
    /\ UNCHANGED <<llm, temp_llm, stack, exited, handler, second, attempted,
                   createVars, frameVars>>

\* _cleanup, first step: self._cleanup_llm() up to time.sleep(1)
StepLlm ==
    /\ Running
    /\ Top = "c_llm"
    /\ attempted' = Append(attempted, "llm")
    /\ IF "llm" \in faulty
       THEN /\ stack' = AfterRaise(stack, "c_fm")
            /\ UNCHANGED <<llm, temp_llm>>
       ELSE IF llm # None
       THEN /\ temp_llm' = llm
            /\ llm' = ClearedRef(llm)
            /\ stack' = SetTop(stack, "c_grace")
       ELSE /\ stack' = AfterStep(stack, "c_fm")
            /\ UNCHANGED <<llm, temp_llm>>
    /\ UNCHANGED <<llm_cleaned, exiting, exited, handler, second, cleanups,
                   createVars, handled, store, store_dirs, fs, frameVars>>

\* after the sleep: temp_llm.cleanup(); del temp_llm
StepGrace ==
    /\ Running
    /\ Top = "c_grace"
    /\ llm_cleaned' = llm_cleaned \cup {temp_llm}
    /\ temp_llm' = None
    /\ stack' = AfterStep(stack, "c_fm")
    /\ UNCHANGED <<llm, exiting, exited, handler, second, cleanups, attempted,
                   createVars, handled, store, store_dirs, fs, frameVars>>

\* second step: self._file_manager.cleanup()
StepFiles ==
    /\ Running
    /\ Top = "c_fm"
    /\ attempted' = Append(attempted, "files")
    /\ IF "files" \in faulty
       THEN /\ stack' = AfterRaise(stack, "c_pt")
            /\ UNCHANGED <<store, store_dirs, fs>>
       ELSE /\ store' = Rmtree(store)
            /\ store_dirs' = FALSE
            /\ fs' = [p \in LedgerPaths |-> NoFile]
            /\ stack' = AfterStep(stack, "c_pt")
    /\ UNCHANGED <<llm, temp_llm, llm_cleaned, exiting, exited, handler, second,
                   cleanups, createVars, handled, frameVars>>

\* third step: self._progress_tracker.cleanup(); _cleanup returns
StepTracker ==
    /\ Running
    /\ Top = "c_pt"
    /\ attempted' = Append(attempted, "tracker")
    /\ IF "tracker" \in faulty
       THEN /\ stack' = AfterRaise(stack, "return")
            /\ fs' = fs
       ELSE /\ fs' = Unlink(fs, CrewTracker)
            /\ stack' = AfterStep(stack, "return")
    /\ UNCHANGED <<llm, temp_llm, llm_cleaned, exiting, exited, handler, second,
                   cleanups, createVars, handled, store, store_dirs, frameVars>>

\* cleanup() has returned to process_with_revisions or to the UI
CleanupReturns ==
    /\ Running
    /\ Top \in {"in_ui", "in_finally"}
    /\ stack' = Pop(stack)
    /\ UNCHANGED <<llm, temp_llm, llm_cleaned, exiting, exited, handler, second,
                   cleanups, attempted, createVars, handled, store, store_dirs,
                   fs, frameVars>>

\* cleanup() has returned to the signal handler: sys.exit(0); or to a
\* finally clause that a SystemExit is passing through
HandlerExits ==
    /\ Running
    /\ Top \in {"in_handler", "in_finally_exit"}
    /\ stack' = Pop(stack)
    /\ exiting' = TRUE
    /\ UNCHANGED <<llm, temp_llm, llm_cleaned, exited, handler, second,
                   cleanups, attempted, createVars, handled, store, store_dirs,
                   fs, frameVars>>

\* SystemExit leaves a frame: "except Exception" does not catch it, the
\* locals of the frame are dropped; the finally clause of a try block runs
Unwind ==
    /\ exiting
    /\ stack # <<>>
    /\ IF Top = "try"
       THEN /\ stack' = SetTop(stack, "finally_exit")
            /\ exiting' = FALSE
       ELSE /\ stack' = Pop(stack)
            /\ exiting' = TRUE
    /\ temp_llm' = IF Top = "c_grace" THEN None ELSE temp_llm
    /\ UNCHANGED <<llm, llm_cleaned, exited, handler, second, cleanups,
                   attempted, createVars, handled, store, store_dirs, fs,
                   frameVars>>

\* SystemExit reaches the interpreter
Exit ==
    /\ exiting
    /\ stack = <<>>
    /\ exited' = TRUE
    /\ exiting' = FALSE
    /\ UNCHANGED <<llm, temp_llm, llm_cleaned, stack, handler, second, cleanups,
                   attempted, createVars, handled, store, store_dirs, fs,
                   frameVars>>

\* ---- _create_llm and _recreate_llm ----

max_retries == 3

\* the loop test of _create_llm with <= (a faulty variant)
RetryOnceMore(n) == n <= max_retries

\* while retry_count < max_retries
RetryAgain(n) == n < max_retries

NextHandle == CHOOSE h \in HandleIds : h \notin made

\* _recreate_llm is called: self._create_llm() starts
Recreate ==
    /\ AtRest
    /\ Cardinality(made) < MaxHandles
    /\ stack' = <<"recreate", "create">>
    /\ retry_count' = 0
    /\ tries' = <<>>
    /\ last_error' = NoExc
    /\ created' = NoReturn
    /\ UNCHANGED <<llm, temp_llm, llm_cleaned, exiting, exited, handler, second,
                   cleanups, attempted, made, handled, store, store_dirs, fs,
                   frameVars>>

\* one pass of the loop: LLM(...) returns an instance, or raises
CreateAttempt ==
    /\ Running
    /\ Top = "create"
    /\ RetryAgain(retry_count)
    /\ \/ /\ tries' = Append(tries, "ok")
          /\ created' = [kind |-> "handle", llm |-> NextHandle]
          /\ made' = made \cup {NextHandle}
          /\ stack' = Pop(stack)
          /\ UNCHANGED <<retry_count, last_error>>
       \/ \E e \in Failures :
            /\ tries' = Append(tries, e)
            /\ last_error' = Raised(e)
            /\ retry_count' = retry_count + 1
            /\ UNCHANGED <<created, made, stack>>
    /\ UNCHANGED <<llm, temp_llm, llm_cleaned, exiting, exited, handler, second,
                   cleanups, attempted, handled, store, store_dirs, fs,
                   frameVars>>

\* the loop is over: raise last_error
CreateExhausted ==
    /\ Running
    /\ Top = "create"
    /\ ~RetryAgain(retry_count)
    /\ created' = [kind |-> "raise", msg |-> last_error.msg]
    /\ stack' = Pop(stack)
    /\ UNCHANGED <<llm, temp_llm, llm_cleaned, exiting, exited, handler, second,
                   cleanups, attempted, retry_count, tries, last_error, made,
                   handled, store, store_dirs, fs, frameVars>>

\* self._llm = self._create_llm(), or the error is logged and raised again
RecreateReturns ==
    /\ Running
    /\ Top = "recreate"
    /\ llm' = IF created.kind = "handle" THEN created.llm ELSE llm
    /\ stack' = Pop(stack)
    /\ UNCHANGED <<temp_llm, llm_cleaned, exiting, exited, handler, second,
                   cleanups, attempted, createVars, handled, store, store_dirs,
                   fs, frameVars>>

\* handlers registered whatever the thread (a faulty variant)
InstalledAlways(main, old, new) == new

\* if threading.current_thread() is threading.main_thread():
\*     self._register_signal_handlers()
Installed(main, old, new) == IF main THEN new ELSE old

\* a second ResearchCrew() in the process; on the main thread its __init__
\* installs its own handlers for SIGINT and SIGTERM
ConstructSecond(main) ==
    /\ AtRest
    /\ ~second.built
    /\ second' = Second(main)
    /\ handler' = Installed(main, handler, "c2")
    /\ store_dirs' = TRUE
    /\ UNCHANGED <<llm, temp_llm, llm_cleaned, stack, exiting, exited, cleanups,
                   attempted, createVars, handled, store, fs, frameVars>>

\* an artifact is saved through the store while nothing else runs
LifeSave ==
    /\ AtRest
    /\ StoreSave("research", "X", FALSE, now)

InitLife ==
    \E f \in SUBSET Steps :
        InitCall /\ InitLifecycle(f) /\ InitStore /\ InitLedger({CrewTracker})

NextLife ==
    \/ LifeCall
    \/ LifeBodyEnds
    \/ FinallyCleanup
    \/ UiCleanup
    \/ Signal
    \/ SignalSecond
    \/ StepLlm
    \/ StepGrace
    \/ StepFiles
    \/ StepTracker
    \/ CleanupReturns
    \/ HandlerExits
    \/ Unwind
    \/ Exit
    \/ Recreate
    \/ CreateAttempt
    \/ CreateExhausted
    \/ RecreateReturns
    \/ \E main \in BOOLEAN : ConstructSecond(main)
    \/ LifeSave

SpecLife == InitLife /\ [][NextLife]_vars

\* ---- the store and the ledger of a session under the UI ----

\* one save_research / save_article / save_review call and its outcome
SaveEntry(dir, content, raised) ==
    [dir |-> dir, content |-> content, raised |-> raised]

\* save_research / save_article / save_review on the store instance:
\* open(file_path, "w") raises FileNotFoundError when the directory is not
\* there, and _save_with_metadata and save_* raise it again
SaveAttempt(dir, content, approved) ==
    /\ approved => dir = "editing"
    /\ writes < MaxWrites
    /\ Len(savelog) < MaxWrites
    /\ IF store_dirs
       THEN /\ store' = IF dir = "editing"
                        THEN SaveReview(store, content, approved, {}, now,
                                        writes + 1)
                        ELSE SaveArtifact(store, dir, content, {}, now,
                                          writes + 1)
            /\ writes' = writes + (IF approved THEN 2 ELSE 1)
       ELSE /\ store' = store
            /\ writes' = writes
    /\ savelog' = Append(savelog, SaveEntry(dir, content, ~store_dirs))
    /\ UNCHANGED <<crewVars, store_dirs, now, spc, job, ledgerVars>>

\* recover_session(session_id) of ui/components/chat.py: cleanup() of the
\* current crew when there is one, then ResearchCrew(session_id=...), whose
\* FileManager sets the directories up and whose ProgressTracker loads the
\* ledger file of the session if it exists and creates it if not
UiRecoverSession(current) ==
    /\ Len(order) < MaxLedgerCalls
    /\ LET fs1   == IF current THEN [p \in LedgerPaths |-> NoFile] ELSE fs
           fresh == FreshRecord(SessionId(Solo), Len(order) + 2)
       IN  /\ store' = IF current THEN Rmtree(store) ELSE store
           /\ IF Exists(fs1, ProgressFile(Solo))
              THEN /\ mem' = [mem EXCEPT ![Solo] =
                                 LoadProgress(fresh, fs1[ProgressFile(Solo)])]
                   /\ fs' = fs1
              ELSE /\ mem' = [mem EXCEPT ![Solo] = fresh]
                   /\ fs' = SavedFs(fs1, Solo, fresh)
    /\ store_dirs' = TRUE
    /\ order' = Append(order, SoloEntry("recover_session", NoArg, FALSE, FALSE))
    /\ UNCHANGED <<crewVars, now, writes, spc, job, savelog, tpc, issued,
                   saving, recovered, fd>>

NextUi ==
    \/ \E step \in 1..2, ok \in BOOLEAN :
          SoloUpdate(AgentOf(Solo), step, TotalSteps, StatusOf(step), ok)
    \/ \E d \in Dirs, c \in Contents, a \in BOOLEAN : SaveAttempt(d, c, a)
    \/ StorePurge
    \/ StoreConstruct
    \/ \E current \in BOOLEAN : UiRecoverSession(current)

SpecUi == Init /\ [][NextUi]_vars

----------------------------------------------------------------------------
(* Properties *)

CallReturned == pc = "done"
CompletedCycle == CallReturned /\ ~exc.raised /\ result.type # "none"
MAX_REVISIONS_FLAG == <<"max_revisions_reached">>

\* C1: with max_revisions = N and an editor whose verdict is NEEDS REVISION,
\* the call performs exactly N writing->editing cycles (kickoffs) and the
\* returned result is flagged max_revisions_reached.
C1_RevisionCapEnforced ==
    (CompletedCycle /\ Contains(Str(result), REVISION_MARK))
        => /\ kickoffs = max_revisions
           /\ ret.kind = "value"
           /\ Contains(ret.text, MAX_REVISIONS_FLAG)

\* C2: a failure raised by get_crew or kickoff never propagates: the call
\* returns a string, and that string is the error result holding the
\* exception's message.
C2_FailureReturnedAsError ==
    /\ CallReturned => ret.kind = "value"
    /\ (CallReturned /\ exc.raised)
          => /\ ret.text = ErrorMessage(exc.msg)
             /\ Contains(ret.text, exc.msg)

C2_Witness ==
    /\ CallReturned /\ exc.raised /\ kickoffs = 1
    /\ ret.kind = "value" /\ Contains(ret.text, <<"Crew error">>)

\* C3: on every exit path the model client handle has been destroyed when the
\* caller regains control: the orchestrator holds None and cleanup() of the
\* handle it held has been invoked.
C3_HandleDestroyedOnReturn ==
    CallReturned => /\ llm = None
                    /\ temp_llm = None
                    /\ Handle \in llm_cleaned

C3_Witness ==
    /\ CallReturned /\ exc.raised /\ calls = 1
    /\ llm = None /\ Handle \in llm_cleaned

C5_FailureLoggedToLedger ==
    (CallReturned /\ exc.raised)
        => /\ Len(mem[CrewTracker].errors) > 0
           /\ Contains(mem[CrewTracker].errors[1].error, exc.msg)

\* C6: a call invokes the progress callback at least once, first from agent
\* "System", and the ledger holds a Step Event for each invocation.
C6_ProgressReportedDuringCall ==
    CallReturned
        => /\ Len(callbacks) > 0
           /\ callbacks[1][1] = "System"
           /\ \A i \in DOMAIN callbacks :
                 StepEvent(callbacks[i][1], callbacks[i][2], callbacks[i][3],
                           callbacks[i][4]) \in Range(mem[CrewTracker].steps)

\* C7: when a call that completed a research->write->edit cycle returns, the
\* store holds at least one research, one draft and one review artifact.
C7_ArtifactsPersisted ==
    CompletedCycle
        => \A d \in Dirs : \E p \in ArtifactPaths : p[1] = d /\ Exists(store, p)

\* C8: in a call that follows a call which destroyed the handle, the agents
\* are built with a live handle (not None, not a destroyed one).
C8_HandleLiveOnLaterCall ==
    (calls >= 2 /\ crew.built)
        => /\ crew.llm # None
           /\ crew.llm \notin llm_cleaned

\* C9: whatever the point at which the process dies during save_progress, the
\* ledger file is never a partial document: it is the file as it was before
\* the save or the complete new record, and recover_progress() returns it.
C9_LedgerWriteAtomic ==
    LET f == fs[ProgressFile("t1")]
    IN  /\ f.written # "part"
        /\ saving.active => f \in {saving.old, Doc(saving.new)}
        /\ tpc["t1"] = "recovered"
              => /\ recovered = f
                 /\ saving.active => recovered \in {saving.old, Doc(saving.new)}

\* a crash between the write of the temporary file and the rename: the
\* truncated temporary file is left behind, recovery returns the old record
C9_Witness ==
    /\ tpc["t1"] = "recovered"
    /\ fs[TempFile("t1")].written = "part"
    /\ saving.active
    /\ saving.old.written = "all"
    /\ recovered = saving.old
    /\ recovered # Doc(saving.new)

\* C10: whatever the interleaving of the update_progress calls of two
\* trackers of one session, once both are done every Step Event either of
\* them appended is in the persisted step history.
C10_NoEventDropped ==
    (\A t \in Trackers : tpc[t] = "idle")
        => \A e \in issued :
              /\ Readable(fs[ProgressFile("t1")])
              /\ e \in Range(fs[ProgressFile("t1")].doc.steps)

\* C11: with two trackers of one session persisting concurrently, their file
\* operations interleaved, the ledger file holds at every moment a complete
\* record, never a partially written document
C11_ReaderSeesCompleteRecord ==
    Readable(fs[ProgressFile(CrewTracker)])

\* the step list a reader of the ledger file gets
PersistedSteps ==
    IF Readable(fs[ProgressFile(CrewTracker)])
    THEN fs[ProgressFile(CrewTracker)].doc.steps ELSE <<>>

IsPrefix(a, b) == Len(a) <= Len(b) /\ SubSeq(b, 1, Len(a)) = a

\* C12: across update_progress and log_error calls of trackers sharing the
\* session id, each persisted step list extends the one persisted before;
\* no persisted Step Event is removed
C12_StepsAppendOnly ==
    [][IsPrefix(PersistedSteps, PersistedSteps')]_vars

\* the calls made so far are update_progress calls followed by
\* recover_progress calls only
UpdatesThenRecovers ==
    \A i \in DOMAIN order :
        /\ order[i].call # "log_error"
        /\ (order[i].call = "recover_progress" /\ i < Len(order))
              => order[i + 1].call = "recover_progress"

\* the Step Events of the update_progress calls, in call order
RECURSIVE EventsOf(_)
EventsOf(o) ==
    IF o = <<>> THEN <<>>
    ELSE IF o[1].call = "update_progress"
         THEN <<o[1].event>> \o EventsOf(Tail(o))
         ELSE EventsOf(Tail(o))

\* C13: after update_progress calls of the two trackers made one after the
\* other, recover_progress() on either tracker returns a record whose step
\* history holds the Step Events of all the calls, in call order
C13_RecoverSeesBothEvents ==
    \A t \in Trackers :
        (tpc[t] = "recovered" /\ UpdatesThenRecovers)
            => /\ Readable(recovered)
               /\ recovered.doc.steps = EventsOf(order)

C13_Witness ==
    /\ tpc["t2"] = "recovered"
    /\ Len(order) = 3
    /\ order[1].call = "update_progress" /\ order[1].tracker = "t1"
    /\ order[2].call = "update_progress" /\ order[2].tracker = "t2"
    /\ Readable(recovered)
    /\ Len(recovered.doc.steps) = 2

\* C14: after tracker1.update_progress followed by tracker2.update_progress,
\* tracker1.get_step_history(), with no further call on tracker1, returns
\* both Step Events in call order
C14_StaleHistoryHasBoth ==
    ( /\ Len(order) = 2
      /\ order[1].call = "update_progress" /\ order[1].tracker = "t1"
      /\ order[2].call = "update_progress" /\ order[2].tracker = "t2" )
        => GetStepHistory("t1") = EventsOf(order)

\* no store is inside a save
StoresIdle == \A s \in StoreSessions : spc[s] = "idle"

\* C15: every artifact-store mutation is a whole-file atomic replacement: no
\* reader and no crash ever finds a partially written artifact document
C15_NoPartialArtifact ==
    \A p \in ArtifactPaths : store[p].written # "part"

\* the completed saves of a kind by a session since the last purge (the
\* final.json mirror is part of its save_review)
SessionLog(sid, dir) ==
    SelectSeq(savelog,
              LAMBDA e : e.sid = sid /\ e.dir = dir /\ e.path # FinalPath)

\* the completed file writes into a directory since the last purge
DirLog(dir) == SelectSeq(savelog, LAMBDA e : e.dir = dir)

Last(q) == q[Len(q)]

\* C16: every successful save creates a new artifact and leaves the earlier
\* ones alone, so a session has as many artifacts of a kind as it made
\* successful saves of that kind since the last purge
C16_OneArtifactPerSave ==
    StoresIdle =>
        \A s \in StoreSessions, d \in Dirs :
            Cardinality(SessionFiles(store, d, s)) = Len(SessionLog(s, d))

\* C17: get_latest_<kind> of a store returns only artifacts of the store's
\* own session, and None when that session has none of the kind
C17_LatestIsOwnSession ==
    StoresIdle =>
        \A s \in StoreSessions, d \in Dirs :
            /\ SessionFiles(store, d, s) = {} => GetLatest(store, d) = NoneRead
            /\ DirFiles(store, d) # {}
                  => Latest(store, DirFiles(store, d))[2] = s

\* C18: after saves of one kind whose write times are strictly increasing,
\* get_latest_<kind>() returns the artifact written last (content, metadata
\* and timestamp)
C18_LatestIsLastWritten ==
    StoresIdle =>
        \A d \in Dirs :
            DirLog(d) # <<>>
              => /\ Latest(store, DirFiles(store, d)) = Last(DirLog(d)).path
                 /\ GetLatest(store, d) = Last(DirLog(d)).doc

C18_Witness ==
    /\ StoresIdle
    /\ Len(DirLog("research")) = 2
    /\ DirLog("research")[1].path # DirLog("research")[2].path
    /\ DirLog("research")[1].doc.content = "X"
    /\ GetLatest(store, "research").content = "Y"

\* C19: after the saves of a session, recover_session(s) of a new store on
\* the same root returns for every kind the artifact the session saved last,
\* and None when the session saved nothing
C19_RecoverRoundTrip ==
    StoresIdle =>
        \A s \in StoreSessions :
            /\ \A d \in Dirs :
                  SessionLog(s, d) # <<>>
                    => /\ d \in RecoveredKinds(store, s)
                       /\ RecoverSession(store, s)[d] = Last(SessionLog(s, d)).doc
            /\ (\A d \in Dirs : SessionLog(s, d) = <<>>)
                  => RecoverSession(store, s) = NoneRead

C19_Witness ==
    /\ StoresIdle
    /\ Len(savelog) = 2
    /\ savelog[1].sid = OtherSession /\ savelog[1].dir = "research"
    /\ savelog[1].doc.content = "X"
    /\ savelog[2].sid = FmSession /\ savelog[2].dir = "research"
    /\ savelog[2].doc.content = "Y"
    /\ RecoverSession(store, OtherSession)["research"].content = "X"

\* C20: research and draft artifacts saved through the orchestrator's store
\* are recovered by a new orchestrator built with the same session_id:
\* new_crew._file_manager.recover_session(session_id) holds them
C20_CrewRecoversSavedArtifacts ==
    ( /\ SessionFiles(store, "research", FmSession) # {}
      /\ SessionFiles(store, "writing", FmSession) # {} )
        => /\ {"research", "writing"}
                 \subseteq RecoveredKinds(store, SessionId(CrewTracker))
           /\ \A d \in {"research", "writing"} :
                 RecoverSession(store, SessionId(CrewTracker))[d]
                    = ReadWithMetadata(store,
                          Latest(store, SessionFiles(store, d, FmSession)))

----------------------------------------------------------------------------
(* Shutdown: cleanup(), the signal handlers, client creation *)

Callers == { "in_ui", "in_finally", "in_handler", "in_finally_exit" }

\* a cleanup() call has just returned to its caller
CleanupDone == Running /\ Top \in Callers

StepOrder == <<"llm", "files", "tracker">>

LedgerAbsent == fs[ProgressFile(CrewTracker)] = NoFile

\* C21: a cleanup() call, the first or a repeated one, with or without a
\* client handle, artifacts or a ledger file, returns with the handle None,
\* the store root absent and the ledger file absent
C21_CleanupIdempotent ==
    (CleanupDone /\ faulty = {})
        => /\ llm = None
           /\ store = EmptyStore
           /\ ~store_dirs
           /\ LedgerAbsent

C21_Witness ==
    /\ CleanupDone
    /\ Top = "in_ui"
    /\ faulty = {}
    /\ handled = {}
    /\ cleanups["c1"] = 2
    /\ llm = None /\ store = EmptyStore /\ ~store_dirs /\ LedgerAbsent

\* C22: within one cleanup() the steps are attempted in the order client
\* destroy, store cleanup, ledger cleanup, each once, and the call returns
\* to its caller only after all three, whichever of them raise
C22_EachStepOnceInOrder ==
    /\ IsPrefix(attempted, StepOrder)
    /\ CleanupDone => attempted = StepOrder

C22_Witness ==
    /\ CleanupDone
    /\ Top = "in_ui"
    /\ faulty = Steps
    /\ attempted = StepOrder

\* C23: when the process has exited on a signal handled by the
\* orchestrator's own handler, its client handle has had its cleanup invoked
\* and is released, the store is purged and the ledger file is removed
C23_SignalRunsFullCleanup ==
    (exited /\ handled = {"c1"} /\ faulty = {} /\ made = {Handle})
        => /\ llm = None
           /\ Handle \in llm_cleaned
           /\ store = EmptyStore
           /\ ~store_dirs
           /\ LedgerAbsent

\* C24: with two orchestrators built on the main thread, a signal runs the
\* cleanup of both before the process exits
C24_BothInstancesCleaned ==
    (exited /\ second.built /\ second.main /\ handled # {})
        => /\ handled = Instances
           /\ cleanups["c1"] >= 1
           /\ cleanups["c2"] = 1

\* C25: an orchestrator's cleanup sequence is invoked at most once, and
\* exactly once in a run that ends by a signal it handles
C25_CleanupExactlyOnce ==
    /\ cleanups["c1"] <= 1
    /\ (exited /\ handled = {"c1"}) => cleanups["c1"] = 1

\* C26: _create_llm invokes the constructor until its first success and at
\* most 3 times; after 3 failures the error of the third is raised; a
\* success on attempt k returns that handle after exactly k invocations
C26_CreateRetriesThrice ==
    /\ Len(tries) <= 3
    /\ \A i \in 1..(Len(tries) - 1) : tries[i] # "ok"
    /\ (Running /\ Top = "recreate" /\ created.kind = "raise")
          => /\ Len(tries) = 3
             /\ tries[3] # "ok"
             /\ created.msg = tries[3]
    /\ (Running /\ Top = "recreate" /\ created.kind = "handle")
          => /\ Last(tries) = "ok"
             /\ retry_count = Len(tries) - 1
             /\ created.llm \in made

C26_Witness ==
    /\ Running
    /\ Top = "recreate"
    /\ created.kind = "raise"
    /\ Len(tries) = 3
    /\ tries[1] # tries[3]

\* C27: when _recreate_llm returns with a new handle, the orchestrator holds
\* a handle, and a handle it held at the call has had its cleanup invoked
C27_RecreateDestroysOld ==
    [][ (Running /\ stack = <<"recreate">> /\ stack' = <<>>
                 /\ created.kind = "handle")
           => /\ llm' # None
              /\ llm # None => llm \in llm_cleaned' ]_vars

Present(st) == { q \in ArtifactPaths : st[q] # NoFile }

\* C28: a purge that could not remove one file leaves no other artifact
\* behind: after it at most the one file is left under the root
C28_PurgeRemovesTheRest ==
    [][ (store_dirs /\ store_dirs' /\ writes' = writes
                    /\ Present(store') # Present(store))
           => Cardinality(Present(store')) <= 1 ]_vars

ApprovedLog == SelectSeq(savelog, LAMBDA e : e.approved)

FileStatus(file) ==
    { kv[2] : kv \in { x \in file.doc.metadata : x[1] = "status" } }

\* C29: editing/final.json exists exactly when an approved review has been
\* saved since the last purge; it holds the content of the last approved
\* review and the status APPROVED; the file of the last review saved under
\* a name holds its content and the status that goes with its approved flag
C29_FinalMirrorsLastApproved ==
    /\ Exists(store, FinalPath) <=> ApprovedLog # <<>>
    /\ ApprovedLog # <<>>
          => /\ store[FinalPath].written = "all"
             /\ store[FinalPath].doc.content = Last(ApprovedLog).content
             /\ FileStatus(store[FinalPath]) = {"APPROVED"}
    /\ \A i \in 1..Len(savelog) :
          (\A j \in (i + 1)..Len(savelog) : savelog[j].path # savelog[i].path)
             => /\ store[savelog[i].path].written = "all"
                /\ store[savelog[i].path].doc.content = savelog[i].content
                /\ FileStatus(store[savelog[i].path])
                      = { IF savelog[i].approved THEN "APPROVED"
                                                 ELSE "NEEDS_REVISION" }

C29_Witness ==
    /\ Len(savelog) = 3
    /\ savelog[1].approved /\ savelog[1].content = "X"
    /\ savelog[2].approved /\ savelog[2].content = "Y"
    /\ ~savelog[3].approved /\ savelog[3].content = "X"
    /\ store[FinalPath].doc.content = "Y"

\* C30: process_with_revisions returns a pair of the final text and a status
\* label: "approved" exactly when the editor's output contains "APPROVED:",
\* "needs_revision" or "max_revisions_reached" when it does not, and
\* "error:<message>" exactly when a failure was caught
C30_ReturnsTextAndLabel ==
    (CallReturned /\ ret.kind = "value")
        => /\ DOMAIN ret = {"kind", "text", "label"}
           /\ (ret.label = <<"approved">>)
                 <=> (~exc.raised /\ Contains(Str(result), APPROVED_MARK))
           /\ (~exc.raised /\ ~Contains(Str(result), APPROVED_MARK))
                 => ret.label \in { <<"needs_revision">>,
                                    <<"max_revisions_reached">> }
           /\ exc.raised <=> ret.label = <<"error:">> \o exc.msg

----------------------------------------------------------------------------
(* The ledger of one tracker *)

\* the step just taken is the end of a call of this method
Called(c) == Len(order') = Len(order) + 1 /\ Last(order').call = c

Persisted == fs[ProgressFile(Solo)]

\* C31: across update_progress calls of a single tracker the current_step of
\* its record never decreases
C31_CurrentStepMonotonic ==
    [][ Called("update_progress")
           => mem'[Solo].current_step >= mem[Solo].current_step ]_vars

\* the record update_progress starts from: the persisted one, or the one in
\* memory when no ledger file can be read
Reloaded == IF Readable(Persisted) THEN Persisted.doc ELSE mem[Solo]

\* C32: after a successful update_progress(agent, step, total, status) the
\* in-memory record and the ledger file hold the same record: current_step,
\* total_steps, status and agent are the arguments, the step history is that
\* of the reloaded ledger with the one new Step Event at its end, session_id,
\* start_time and the error list are those of the reloaded ledger
C32_UpdateWritesOneEvent ==
    [][ (Called("update_progress") /\ ~Last(order').raised)
           => LET ev == Last(order').arg
                  m2 == mem'[Solo]
              IN  /\ Persisted' = Doc(m2)
                  /\ m2.current_step = ev.step
                  /\ m2.total_steps = ev.total
                  /\ m2.status = ev.status
                  /\ m2.agent = ev.agent
                  /\ m2.steps = Append(Reloaded.steps, ev)
                  /\ m2.session_id = Reloaded.session_id
                  /\ m2.start_time = Reloaded.start_time
                  /\ m2.errors = Reloaded.errors ]_vars

\* C32 as stated: the step history and the error list are also those the
\* tracker held in memory before the call
C32_UpdateKeepsMemoryLists ==
    [][ (Called("update_progress") /\ ~Last(order').raised)
           => LET ev == Last(order').arg
                  m2 == mem'[Solo]
              IN  /\ Persisted' = Doc(m2)
                  /\ m2.current_step = ev.step
                  /\ m2.agent = ev.agent
                  /\ m2.steps = Append(mem[Solo].steps, ev)
                  /\ m2.session_id = mem[Solo].session_id
                  /\ m2.start_time = mem[Solo].start_time
                  /\ m2.errors = mem[Solo].errors ]_vars

C32_Witness ==
    /\ Len(order) = 3
    /\ order[1].call = "update_progress" /\ order[1].saved
    /\ order[2].call = "log_error" /\ ~order[2].saved
    /\ order[3].call = "update_progress" /\ order[3].saved
    /\ Len(mem[Solo].steps) = 2
    /\ Persisted = Doc(mem[Solo])

\* C33: a log_error call does not raise; when it has persisted, the error
\* list in memory and the one in the ledger file are the earlier list with
\* the one new Error Event at its end, and the step history and the scalar
\* fields of the tracker are as before
C33_LogErrorAppendsOne ==
    [][ Called("log_error")
           => LET t  == Last(order').tracker
                  ev == [error |-> Last(order').error]
              IN  /\ mem'[t].errors = Append(mem[t].errors, ev)
                  /\ mem'[t].steps = mem[t].steps
                  /\ mem'[t].current_step = mem[t].current_step
                  /\ mem'[t].status = mem[t].status
                  /\ fs'[ProgressFile(t)].doc.errors
                        = Append(fs[ProgressFile(t)].doc.errors, ev) ]_vars

\* C34: recover_progress over a missing or damaged ledger file returns None
\* and leaves the in-memory record alone; a tracker constructed over a
\* damaged file holds the default record; a successful update over a damaged
\* file leaves a complete document of the tracker's record in its place
C34_CorruptLedgerStartsFresh ==
    [][ /\ (Called("recover_progress") /\ ~Readable(Persisted))
              => /\ recovered' = NoFile
                 /\ mem' = mem
                 /\ ~Last(order').raised
        /\ (Called("construct") /\ Persisted.written = "part")
              => /\ mem'[Solo] = FreshRecord(SessionId(Solo), Len(order) + 2)
                 /\ mem'[Solo].current_step = 0
                 /\ mem'[Solo].steps = <<>>
                 /\ mem'[Solo].errors = <<>>
        /\ (Called("update_progress") /\ Last(order').saved
                                      /\ Persisted.written = "part")
              => Persisted' = Doc(mem'[Solo]) ]_vars

C34_Witness ==
    /\ Len(order) = 3
    /\ order[1].call = "construct"
    /\ order[2].call = "recover_progress"
    /\ order[3].call = "update_progress" /\ order[3].saved
    /\ mem[Solo].start_time = StartTime(2)
    /\ Len(mem[Solo].steps) = 1
    /\ Persisted = Doc(mem[Solo])

\* C40: ProgressTracker.cleanup removes the ledger file and leaves the
\* in-memory record as it is; the next update_progress or log_error that
\* persists re-creates the file with every Step Event and Error Event the
\* tracker held, followed by the new one
C40_LedgerRebuiltAfterCleanup ==
    [][ /\ Called("cleanup")
              => /\ mem' = mem
                 /\ ~Exists(fs', ProgressFile(Solo))
        /\ (Called("update_progress") /\ Last(order').saved /\ Persisted = NoFile)
              => /\ Readable(Persisted')
                 /\ Persisted'.doc.steps
                       = Append(mem[Solo].steps, Last(order').arg)
                 /\ Persisted'.doc.errors = mem[Solo].errors
        /\ (Called("log_error") /\ Last(order').saved /\ Persisted = NoFile)
              => /\ Readable(Persisted')
                 /\ Persisted'.doc.steps = mem[Solo].steps
                 /\ Persisted'.doc.errors
                       = Append(mem[Solo].errors, [error |-> Last(order').arg])
      ]_vars

C40_Witness ==
    /\ Len(order) = 3
    /\ order[1].call = "update_progress" /\ order[1].saved
    /\ order[2].call = "cleanup"
    /\ order[3].call = "log_error" /\ order[3].saved
    /\ Readable(Persisted)
    /\ Len(Persisted.doc.steps) = 1
    /\ Len(Persisted.doc.errors) = 1

----------------------------------------------------------------------------
(* Construction threads, the grace period, and the shared root *)

\* C35: the construction of an orchestrator installs its signal handlers
\* exactly when it runs on the main thread; on another thread the handlers
\* stay as they were and the construction completes
C35_HandlersOnlyOnMainThread ==
    [][ (~second.built /\ second'.built)
           => /\ (handler' = "c2") <=> second'.main
              /\ ~second'.main => handler' = handler ]_vars

C35_Witness ==
    /\ second.built
    /\ ~second.main
    /\ handler = "c1"

\* C36: during the grace period of a client destroy the owned reference
\* still points at the handle
C36_ReferenceHeldDuringGrace ==
    pc = "grace" => (llm # None /\ llm = temp_llm)

\* C37: recover_session(session_id) of the UI leaves a crew whose ledger
\* record has the current_step, step history and errors persisted for the
\* session before, and the artifacts of the store are still there
C37_UiRecoveryKeepsSession ==
    [][ (Called("recover_session") /\ Readable(Persisted))
           => /\ mem'[Solo].current_step = Persisted.doc.current_step
              /\ mem'[Solo].steps = Persisted.doc.steps
              /\ mem'[Solo].errors = Persisted.doc.errors
              /\ \A p \in ArtifactPaths :
                    Exists(store, p) => store'[p] = store[p] ]_vars

\* C38: FileManager.cleanup leaves every ledger file as it was
C38_PurgeKeepsLedger ==
    [][ (store_dirs /\ ~store_dirs') => fs' = fs ]_vars

\* C39: a save_* call on a store whose cleanup has run succeeds, and the
\* matching get_latest_* call returns what it saved
C39_SaveAfterPurge ==
    [][ (Len(savelog') = Len(savelog) + 1 /\ ~store_dirs)
           => /\ ~Last(savelog').raised
              /\ DirFiles(store', Last(savelog').dir) # {}
              /\ GetLatest(store', Last(savelog').dir).content
                    = Last(savelog').content ]_vars


====
